---- MODULE Spec2Model ----
(***************************************************************************)
(* A model of rust-blackjack (src/src/main.rs): the card model, the hand   *)
(* valuation (a fold of a pruned cartesian combination over the possible   *)
(* values of each card), the deck (remaining / drawn), the round state     *)
(* machine deal_with_action, the action parser and the loop of main.       *)
(*                                                                         *)
(* Rust values are modelled as follows.                                    *)
(*   Option<T>       a sequence of length 0 (None) or 1 (Some(x))          *)
(*   Vec<T>          a sequence                                            *)
(*   struct          a record with the struct's field names               *)
(*   enum (no data)  the variant's name as a string                        *)
(*   GameState       [variant, player_state]                               *)
(*   String          a sequence of one-character strings                   *)
(*   &mut Deck       the deck is passed in and the changed deck is passed  *)
(*                   out; the variable deck is the one Deck of the program *)
(***************************************************************************)
EXTENDS Integers, Sequences, FiniteSets, TLC

VARIABLES
    deck,        \* the Deck: [remaining_cards, drawn_cards]
    game_state,  \* Option of [variant, hand]: None until GameState::start
    call,        \* the last call made: [name, action, ret]
    cards,       \* a Vec<Card> handed to the valuation functions (ValSpec)
    raw_action,  \* main's String raw_action, a sequence of characters
    stdin_lines, \* main's iterator over the lines of stdin: "more" or "exhausted"
    pc           \* where main is: "shuffle", "start", "loop", "done"

vars == <<deck, game_state, call, cards, raw_action, stdin_lines, pc>>

\* What only main changes.
main_vars == <<raw_action, stdin_lines, pc>>

----------------------------------------------------------------------------
(* Bounds of the model. *)

\* The deck of the state machine is built from the first NumSuits suits ...
NumSuits == 2

\* ... and from these ranks (a sub-sequence of CardValue::ALL_VALUES).
DeckValues == <<"King", "Ace">>

\* The longest hand handed to the valuation functions in ValSpec.
MaxHandLen == 4

----------------------------------------------------------------------------
(* Rust's Option, iterators and folds. *)

None == <<>>

Some(x) == <<x>>

\* The value unwrap() gives when the program panics instead.
Panic == [panic |-> TRUE]

unwrap(opt) == IF opt = None THEN Panic ELSE opt[1]

\* iter().map(f).collect()
Map(f(_), s) == [i \in 1..Len(s) |-> f(s[i])]

RECURSIVE Flatten(_)
\* the concatenation of a sequence of sequences (flat_map's flattening)
Flatten(ss) == IF ss = <<>> THEN <<>> ELSE Head(ss) \o Flatten(Tail(ss))

\* iter().flat_map(f).collect()
FlatMap(f(_), s) == Flatten(Map(f, s))

\* filter_map(identity): keeps the x of every Some(x), in order
filter_map_identity(opts) == FlatMap(LAMBDA o : o, opts)

RECURSIVE fold(_, _, _)
\* Iterator::fold, from the left
fold(f(_, _), init, s) ==
    IF s = <<>> THEN init ELSE fold(f, f(init, Head(s)), Tail(s))

ToSet(s) == {s[i] : i \in 1..Len(s)}

----------------------------------------------------------------------------
(* The card model. *)

Actions == {"Hit", "Stand", "DoubleDown", "SplitCards", "Surrender"}

CardSuit_ALL_VALUES == <<"Clubs", "Hearts", "Diamonds", "Spades">>

CardValue_ALL_VALUES ==
    <<"Two", "Three", "Four", "Five", "Six", "Seven", "Eight", "Nine", "Ten",
      "Jack", "Queen", "King", "Ace">>

Card(suit, value) == [suit |-> suit, value |-> value]

----------------------------------------------------------------------------
(* HandValue and the valuation of a hand. *)

\* from_u32 refusing every value from 11 on.
from_u32_below_11(x) == IF x < 11 THEN Some([value |-> x]) ELSE None

from_u32(x) == IF x < 21 THEN Some([value |-> x]) ELSE None

unsafe_from_u32(x) == unwrap(from_u32(x))

\* combine_with_separate_value without the test against 21.
combine_with_separate_value_uncapped(self, other_value) ==
    Some([value |-> self.value + other_value.value])

\* combine_with_separate_value with from_u32's bound (< 21) in place of <= 21.
combine_with_separate_value_lt(self, other_value) ==
    LET raw_result == self.value + other_value.value
    IN  IF raw_result < 21 THEN Some([value |-> raw_result]) ELSE None

combine_with_separate_value(self, other_value) ==
    LET raw_result == self.value + other_value.value
    IN  IF raw_result <= 21 THEN Some([value |-> raw_result]) ELSE None

card_value_to_hand_value(card_value) ==
    CASE card_value = "Two"   -> <<unsafe_from_u32(2)>>
      [] card_value = "Three" -> <<unsafe_from_u32(3)>>
      [] card_value = "Four"  -> <<unsafe_from_u32(4)>>
      [] card_value = "Five"  -> <<unsafe_from_u32(5)>>
      [] card_value = "Six"   -> <<unsafe_from_u32(6)>>
      [] card_value = "Seven" -> <<unsafe_from_u32(7)>>
      [] card_value = "Eight" -> <<unsafe_from_u32(8)>>
      [] card_value = "Nine"  -> <<unsafe_from_u32(9)>>
      [] card_value = "Ten"   -> <<unsafe_from_u32(10)>>
      [] card_value = "Jack"  -> <<unsafe_from_u32(10)>>
      [] card_value = "Queen" -> <<unsafe_from_u32(10)>>
      [] card_value = "King"  -> <<unsafe_from_u32(10)>>
      [] card_value = "Ace"   -> <<unsafe_from_u32(1), unsafe_from_u32(11)>>

\* combine_possible_values taking an empty values_0 for "nothing to add to".
combine_possible_values_restart(values_0, values_1) ==
    IF values_0 = <<>>
    THEN values_1
    ELSE filter_map_identity(
             FlatMap(LAMBDA x :
                         Map(LAMBDA y : combine_with_separate_value(x, y), values_1),
                     values_0))

combine_possible_values(values_0, values_1) ==
    filter_map_identity(
        FlatMap(LAMBDA x :
                    Map(LAMBDA y : combine_with_separate_value(x, y), values_1),
                values_0))

calculate_current_hand_value(hand) ==
    fold(combine_possible_values,
         <<unsafe_from_u32(0)>>,
         Map(card_value_to_hand_value, hand))

cartesian_product(xs, ys) ==
    FlatMap(LAMBDA x : Map(LAMBDA y : <<x, y>>, ys), xs)

raw_calculate_current_hand_value(hand) ==
    fold(LAMBDA x, y :
             Map(LAMBDA x_and_y : x_and_y[1] + x_and_y[2].value,
                 cartesian_product(x, y)),
         <<0>>,
         Map(card_value_to_hand_value, hand))

create_hand_values(hand) == Map(LAMBDA card : card.value, hand)

\* is_hand_too_large counting every ace as 11 (the last of its values) only.
is_hand_too_large_hard(hand) ==
    LET card_values == Map(LAMBDA card : card.value, hand)
        hard(card_value) ==
            LET vs == card_value_to_hand_value(card_value) IN <<vs[Len(vs)]>>
    IN  IF hand # <<>>
        THEN fold(combine_possible_values, <<unsafe_from_u32(0)>>,
                  Map(hard, card_values)) = <<>>
        ELSE FALSE

is_hand_too_large(hand) ==
    LET card_values == Map(LAMBDA card : card.value, hand)
    IN  IF hand # <<>>
        THEN calculate_current_hand_value(card_values) = <<>>
        ELSE FALSE

----------------------------------------------------------------------------
(* The deck. *)

\* The two loops of Deck::new over the given suits and ranks.
Deck_from(suits, values) ==
    [remaining_cards |->
         FlatMap(LAMBDA suit : Map(LAMBDA value : Card(suit, value), values),
                 suits),
     drawn_cards |-> <<>>]

Deck_new == Deck_from(CardSuit_ALL_VALUES, CardValue_ALL_VALUES)

\* Deck::new within the bounds of the model.
BoundedDeck_new == Deck_from(SubSeq(CardSuit_ALL_VALUES, 1, NumSuits), DeckValues)

\* The decks rng.shuffle may leave: remaining_cards in any order.
shuffle(d) ==
    {[d EXCEPT !.remaining_cards =
                   [i \in 1..Len(d.remaining_cards) |-> d.remaining_cards[p[i]]]] :
        p \in Permutations(1..Len(d.remaining_cards))}

\* remove(0) in place of pop(): takes the first element, not the last.
pop_front(vec) ==
    IF vec = <<>>
    THEN [vec |-> vec, ret |-> None]
    ELSE [vec |-> Tail(vec), ret |-> Some(Head(vec))]

\* Vec::pop: [vec, ret], the vector left and the Option popped.
pop(vec) ==
    IF vec = <<>>
    THEN [vec |-> vec, ret |-> None]
    ELSE [vec |-> SubSeq(vec, 1, Len(vec) - 1), ret |-> Some(vec[Len(vec)])]

\* draw_card that forgets to push the popped card on drawn_cards.
draw_card_forgets(d) ==
    LET popped == pop(d.remaining_cards)
        card_opt == popped.ret
    IN  IF card_opt # None
        THEN [deck |-> [remaining_cards |-> popped.vec,
                        drawn_cards |-> d.drawn_cards],
              ret |-> Some(card_opt[1])]
        ELSE [deck |-> [d EXCEPT !.remaining_cards = popped.vec],
              ret |-> None]

\* draw_card reading the last remaining card without taking it off.
draw_card_peeks(d) ==
    IF d.remaining_cards # <<>>
    THEN LET card == d.remaining_cards[Len(d.remaining_cards)]
         IN  [deck |-> [d EXCEPT !.drawn_cards = Append(d.drawn_cards, card)],
              ret |-> Some(card)]
    ELSE [deck |-> d, ret |-> None]

\* [deck, ret]: the deck as draw_card leaves it and the Option<Card> returned.
draw_card(d) ==
    LET popped == pop(d.remaining_cards)
        card_opt == popped.ret
    IN  IF card_opt # None
        THEN LET card == card_opt[1]
                 new_card == [value |-> card.value, suit |-> card.suit]
             IN  [deck |-> [remaining_cards |-> popped.vec,
                            drawn_cards |-> Append(d.drawn_cards, card)],
                  ret |-> Some(new_card)]
        ELSE [deck |-> [d EXCEPT !.remaining_cards = popped.vec],
              ret |-> None]

----------------------------------------------------------------------------
(* The round state machine. *)

GameWon(player_state) == [variant |-> "GameWon", player_state |-> player_state]

GameLost(player_state) == [variant |-> "GameLost", player_state |-> player_state]

Continuing(player_state) ==
    [variant |-> "Continuing", player_state |-> player_state]

\* GameState::start dealing the first card of the round itself.
start_deals(d) ==
    LET drawn == draw_card(d)
    IN  Continuing([deck |-> drawn.deck,
                    hand |-> IF drawn.ret # None THEN <<drawn.ret[1]>> ELSE <<>>])

start(d) == Continuing([deck |-> d, hand |-> <<>>])

\* The arm Action::Hit valuing the hand as it was before the push.
deal_with_hit_stale(player_state) ==
    LET drawn == draw_card(player_state.deck)
        card_opt == drawn.ret
        after == [deck |-> drawn.deck,
                  hand |-> IF card_opt # None
                           THEN Append(player_state.hand, card_opt[1])
                           ELSE player_state.hand]
    IN  IF is_hand_too_large(player_state.hand)
        THEN GameLost(after)
        ELSE LET card_values == create_hand_values(player_state.hand)
                 possible_hand_values == calculate_current_hand_value(card_values)
                 are_any_hand_values_21 ==
                     \E i \in 1..Len(possible_hand_values) :
                         possible_hand_values[i].value = 21
             IN  IF are_any_hand_values_21
                 THEN GameWon(after)
                 ELSE Continuing(after)

\* The arm Action::Hit losing the round when the deck gives no card.
deal_with_hit_empty_loses(player_state) ==
    LET drawn == draw_card(player_state.deck)
        card_opt == drawn.ret
        after == [deck |-> drawn.deck,
                  hand |-> IF card_opt # None
                           THEN Append(player_state.hand, card_opt[1])
                           ELSE player_state.hand]
    IN  IF card_opt = None \/ is_hand_too_large(after.hand)
        THEN GameLost(after)
        ELSE LET card_values == create_hand_values(after.hand)
                 possible_hand_values == calculate_current_hand_value(card_values)
                 are_any_hand_values_21 ==
                     \E i \in 1..Len(possible_hand_values) :
                         possible_hand_values[i].value = 21
             IN  IF are_any_hand_values_21
                 THEN GameWon(after)
                 ELSE Continuing(after)

\* The arm Action::Hit putting the card at the front of the hand.
deal_with_hit_prepends(player_state) ==
    LET drawn == draw_card(player_state.deck)
        card_opt == drawn.ret
        after == [deck |-> drawn.deck,
                  hand |-> IF card_opt # None
                           THEN <<card_opt[1]>> \o player_state.hand
                           ELSE player_state.hand]
    IN  IF is_hand_too_large(after.hand)
        THEN GameLost(after)
        ELSE LET card_values == create_hand_values(after.hand)
                 possible_hand_values == calculate_current_hand_value(card_values)
                 are_any_hand_values_21 ==
                     \E i \in 1..Len(possible_hand_values) :
                         possible_hand_values[i].value = 21
             IN  IF are_any_hand_values_21
                 THEN GameWon(after)
                 ELSE Continuing(after)

\* The arm Action::Hit looking for 21 in the first possible total only.
deal_with_hit_first_total(player_state) ==
    LET drawn == draw_card(player_state.deck)
        card_opt == drawn.ret
        after == [deck |-> drawn.deck,
                  hand |-> IF card_opt # None
                           THEN Append(player_state.hand, card_opt[1])
                           ELSE player_state.hand]
    IN  IF is_hand_too_large(after.hand)
        THEN GameLost(after)
        ELSE LET card_values == create_hand_values(after.hand)
                 possible_hand_values == calculate_current_hand_value(card_values)
                 are_any_hand_values_21 == possible_hand_values[1].value = 21
             IN  IF are_any_hand_values_21
                 THEN GameWon(after)
                 ELSE Continuing(after)

\* The arm Action::Hit of deal_with_action.
deal_with_hit(player_state) ==
    LET drawn == draw_card(player_state.deck)
        card_opt == drawn.ret
        after == [deck |-> drawn.deck,
                  hand |-> IF card_opt # None
                           THEN Append(player_state.hand, card_opt[1])
                           ELSE player_state.hand]
    IN  IF is_hand_too_large(after.hand)
        THEN GameLost(after)
        ELSE LET card_values == create_hand_values(after.hand)
                 possible_hand_values == calculate_current_hand_value(card_values)
                 are_any_hand_values_21 ==
                     \E i \in 1..Len(possible_hand_values) :
                         possible_hand_values[i].value = 21
             IN  IF are_any_hand_values_21
                 THEN GameWon(after)
                 ELSE Continuing(after)

\* deal_with_action letting a won round take further hits.
deal_with_action_won_plays_on(action, state) ==
    CASE state.variant = "GameLost" -> state
      [] state.variant = "GameWon" -> IF action = "Hit" THEN deal_with_hit(state.player_state) ELSE state
      [] state.variant = "Continuing" ->
            LET player_state == state.player_state
            IN  CASE action = "Surrender" -> GameLost(player_state)
                  [] action = "Hit" -> deal_with_hit(player_state)
                  [] action = "Stand" -> GameLost(player_state)
                  [] action = "DoubleDown" -> GameLost(player_state)
                  [] action = "SplitCards" -> GameLost(player_state)

\* deal_with_action with Stand left as a no-op on a round in play.
deal_with_action_stand_waits(action, state) ==
    CASE state.variant = "GameLost" -> state
      [] state.variant = "GameWon" -> state
      [] state.variant = "Continuing" ->
            LET player_state == state.player_state
            IN  CASE action = "Surrender" -> GameLost(player_state)
                  [] action = "Hit" -> deal_with_hit(player_state)
                  [] action = "Stand" -> Continuing(player_state)
                  [] action = "DoubleDown" -> GameLost(player_state)
                  [] action = "SplitCards" -> GameLost(player_state)

\* deal_with_action with DoubleDown drawing its card before the loss.
deal_with_action_double_draws(action, state) ==
    CASE state.variant = "GameLost" -> state
      [] state.variant = "GameWon" -> state
      [] state.variant = "Continuing" ->
            LET player_state == state.player_state
            IN  CASE action = "Surrender" -> GameLost(player_state)
                  [] action = "Hit" -> deal_with_hit(player_state)
                  [] action = "Stand" -> GameLost(player_state)
                  [] action = "DoubleDown" -> GameLost(deal_with_hit(player_state).player_state)
                  [] action = "SplitCards" -> GameLost(player_state)

deal_with_action(action, state) ==
    CASE state.variant = "GameLost" -> state
      [] state.variant = "GameWon" -> state
      [] state.variant = "Continuing" ->
            LET player_state == state.player_state
            IN  CASE action = "Surrender" -> GameLost(player_state)
                  [] action = "Hit" -> deal_with_hit(player_state)
                  [] action = "Stand" -> GameLost(player_state)
                  [] action = "DoubleDown" -> GameLost(player_state)
                  [] action = "SplitCards" -> GameLost(player_state)

continue_with_game(state) ==
    CASE state.variant = "GameWon" -> FALSE
      [] state.variant = "GameLost" -> FALSE
      [] state.variant = "Continuing" -> TRUE

----------------------------------------------------------------------------
(* The state machine of the program: the deck is built, shuffled and drawn  *)
(* from; GameState::start borrows it for a round (after which only          *)
(* deal_with_action can reach it); the round takes any action in any state. *)

Started == game_state # None

\* The GameState the program holds: its PlayerState refers to the deck.
CurrentState ==
    [variant |-> game_state[1].variant,
     player_state |-> [deck |-> deck, hand |-> game_state[1].hand]]

variant == game_state[1].variant

hand == game_state[1].hand

Called(name, action, ret) == [name |-> name, action |-> action, ret |-> ret]

Init ==
    /\ deck = BoundedDeck_new
    /\ game_state = None
    /\ call = Called("new", "-", None)
    /\ cards = <<>>
    /\ raw_action = <<>>
    /\ stdin_lines = "more"
    /\ pc = "-"

Shuffle ==
    /\ ~Started
    /\ deck' \in shuffle(deck)
    /\ call' = Called("shuffle", "-", None)
    /\ UNCHANGED <<game_state, cards, main_vars>>

DrawCard ==
    /\ ~Started
    /\ LET r == draw_card(deck)
       IN  /\ deck' = r.deck
           /\ call' = Called("draw_card", "-", r.ret)
    /\ UNCHANGED <<game_state, cards, main_vars>>

Start ==
    /\ ~Started
    /\ LET s == start(deck)
       IN  /\ game_state' = Some([variant |-> s.variant, hand |-> s.player_state.hand])
           /\ deck' = s.player_state.deck
    /\ call' = Called("start", "-", None)
    /\ UNCHANGED <<cards, main_vars>>

DealWithAction(action) ==
    /\ Started
    /\ LET s == deal_with_action(action, CurrentState)
       IN  /\ game_state' = Some([variant |-> s.variant, hand |-> s.player_state.hand])
           /\ deck' = s.player_state.deck
    /\ call' = Called("deal_with_action", action, None)
    /\ UNCHANGED <<cards, main_vars>>

Next ==
    \/ Shuffle
    \/ DrawCard
    \/ Start
    \/ \E action \in Actions : DealWithAction(action)

Spec == Init /\ [][Next]_vars

----------------------------------------------------------------------------
(* The action parser. *)

\* char::is_whitespace, for the characters of InputLines.
is_whitespace(c) == c \in {" ", "\t"}

RECURSIVE trim_start(_)
trim_start(str) ==
    IF str # <<>> /\ is_whitespace(Head(str)) THEN trim_start(Tail(str)) ELSE str

RECURSIVE trim_end(_)
trim_end(str) ==
    IF str # <<>> /\ is_whitespace(str[Len(str)])
    THEN trim_end(SubSeq(str, 1, Len(str) - 1))
    ELSE str

\* str::trim
trim(str) == trim_end(trim_start(str))

\* The string literals of parse_action's arms.
Literal_hit == <<"h", "i", "t">>

Literal_stand == <<"s", "t", "a", "n", "d">>

Literal_double_down == <<"d", "o", "u", "b", "l", "e", "-", "d", "o", "w", "n">>

Literal_split == <<"s", "p", "l", "i", "t">>

Literal_surrender == <<"s", "u", "r", "r", "e", "n", "d", "e", "r">>

\* parse_action matching the line as read, without trim().
parse_action_untrimmed(str) ==
    CASE str = Literal_hit -> Some("Hit")
      [] str = Literal_stand -> Some("Stand")
      [] str = Literal_double_down -> Some("DoubleDown")
      [] str = Literal_split -> Some("SplitCards")
      [] str = Literal_surrender -> Some("Surrender")
      [] OTHER -> None

parse_action(str) ==
    LET trimmed == trim(str)
    IN  CASE trimmed = Literal_hit -> Some("Hit")
          [] trimmed = Literal_stand -> Some("Stand")
          [] trimmed = Literal_double_down -> Some("DoubleDown")
          [] trimmed = Literal_split -> Some("SplitCards")
          [] trimmed = Literal_surrender -> Some("Surrender")
          [] OTHER -> None

----------------------------------------------------------------------------
(* main: Deck::new, shuffle, GameState::start, then the loop that reads a   *)
(* line, parses it and applies the action, until the round is won or lost.  *)

\* The lines stdin may hold: the five commands, and lines with surrounding
\* whitespace, another case, an unknown word, an inner blank, only blanks
\* and nothing.
InputLines ==
    {Literal_hit, Literal_stand, Literal_double_down, Literal_split,
     Literal_surrender,
     <<" ">> \o Literal_hit \o <<"\t">>,
     Literal_surrender \o <<" ", " ">>,
     <<"H", "i", "t">>,
     <<"f", "o", "l", "d">>,
     <<"h", " ", "i", "t">>,
     <<" ">>,
     <<>>}

\* What stdin_lines.next() may return: a line while stdin has more, and no
\* line from the end of stdin on.
stdin_lines_next ==
    IF stdin_lines = "exhausted"
    THEN {None}
    ELSE {None} \cup {Some(line) : line \in InputLines}

MainInit ==
    /\ deck = BoundedDeck_new
    /\ game_state = None
    /\ call = Called("new", "-", None)
    /\ cards = <<>>
    /\ raw_action = <<>>
    /\ stdin_lines = "more"
    /\ pc = "shuffle"

MainShuffle ==
    /\ pc = "shuffle"
    /\ deck' \in shuffle(deck)
    /\ call' = Called("shuffle", "-", None)
    /\ pc' = "start"
    /\ UNCHANGED <<game_state, cards, raw_action, stdin_lines>>

MainStart ==
    /\ pc = "start"
    /\ LET s == start(deck)
       IN  /\ game_state' = Some([variant |-> s.variant, hand |-> s.player_state.hand])
           /\ deck' = s.player_state.deck
    /\ call' = Called("start", "-", None)
    /\ pc' = "loop"
    /\ UNCHANGED <<cards, raw_action, stdin_lines>>

\* A turn of the loop that forgets the line once stdin gives no other.
MainLoop_clears(line_opt) ==
    /\ pc = "loop"
    /\ continue_with_game(CurrentState)
    /\ line_opt \in stdin_lines_next
    /\ stdin_lines' = IF line_opt = None THEN "exhausted" ELSE stdin_lines
    /\ LET line_read == IF line_opt # None THEN line_opt[1] ELSE <<>>
           action == parse_action(line_read)
       IN  /\ raw_action' = line_read
           /\ IF action # None
              THEN LET s == deal_with_action(action[1], CurrentState)
                   IN  /\ game_state' =
                              Some([variant |-> s.variant,
                                    hand |-> s.player_state.hand])
                       /\ deck' = s.player_state.deck
                       /\ call' = Called("deal_with_action", action[1], None)
              ELSE /\ call' = Called("parse_action", "-", None)
                   /\ UNCHANGED <<game_state, deck>>
    /\ UNCHANGED <<cards, pc>>

\* One turn of the while loop.
MainLoop(line_opt) ==
    /\ pc = "loop"
    /\ continue_with_game(CurrentState)
    /\ line_opt \in stdin_lines_next
    /\ stdin_lines' = IF line_opt = None THEN "exhausted" ELSE stdin_lines
    /\ LET line_read == IF line_opt # None THEN line_opt[1] ELSE raw_action
           action == parse_action(line_read)
       IN  /\ raw_action' = line_read
           /\ IF action # None
              THEN LET s == deal_with_action(action[1], CurrentState)
                   IN  /\ game_state' =
                              Some([variant |-> s.variant,
                                    hand |-> s.player_state.hand])
                       /\ deck' = s.player_state.deck
                       /\ call' = Called("deal_with_action", action[1], None)
              ELSE /\ call' = Called("parse_action", "-", None)
                   /\ UNCHANGED <<game_state, deck>>
    /\ UNCHANGED <<cards, pc>>

\* The loop's test failing: main goes on to print the result.
MainExit ==
    /\ pc = "loop"
    /\ ~continue_with_game(CurrentState)
    /\ pc' = "done"
    /\ UNCHANGED <<deck, game_state, call, cards, raw_action, stdin_lines>>

MainNext ==
    \/ MainShuffle
    \/ MainStart
    \/ \E line_opt \in {None} \cup {Some(line) : line \in InputLines} :
           MainLoop(line_opt)
    \/ MainExit

MainSpec == MainInit /\ [][MainNext]_vars

----------------------------------------------------------------------------
(* The valuation functions on every hand of at most MaxHandLen cards.  The  *)
(* valuation reads only the rank of a card, so one suit stands for all.    *)

ValuationCards ==
    {Card(CardSuit_ALL_VALUES[1], CardValue_ALL_VALUES[i]) :
        i \in 1..Len(CardValue_ALL_VALUES)}

ValInit ==
    /\ deck = BoundedDeck_new
    /\ game_state = None
    /\ call = Called("new", "-", None)
    /\ cards = <<>>
    /\ raw_action = <<>>
    /\ stdin_lines = "more"
    /\ pc = "-"

PushCard(card) ==
    /\ Len(cards) < MaxHandLen
    /\ cards' = Append(cards, card)
    /\ UNCHANGED <<deck, game_state, call, main_vars>>

ValNext == \E card \in ValuationCards : PushCard(card)

ValSpec == ValInit /\ [][ValNext]_vars

----------------------------------------------------------------------------
(* The hands of a round on the full deck of Deck::new.  The shuffle decides *)
(* which remaining card is drawn next; the hand is built as the Hit arm     *)
(* builds it, by draw_card and push.  The valuation reads the ranks only    *)
(* and sums them, so each combination of cards is taken once: in the order  *)
(* of CardValue::ALL_VALUES, a rank in the order of its suits.  Cards are   *)
(* added as long as the hand is not too large, which is every hand a round  *)
(* can hold while it is Continuing (and more: a round also stops at 21).    *)

\* The deck with the card at place i of remaining_cards put last, where
\* pop() takes it: one of the orders rng.shuffle may leave.
OnTop(d, i) ==
    [d EXCEPT !.remaining_cards =
                  SubSeq(d.remaining_cards, 1, i - 1)
                      \o SubSeq(d.remaining_cards, i + 1, Len(d.remaining_cards))
                      \o <<d.remaining_cards[i]>>]

\* The place of a rank in CardValue::ALL_VALUES.
RankIndex(rank) ==
    CHOOSE k \in 1..Len(CardValue_ALL_VALUES) : CardValue_ALL_VALUES[k] = rank

FullDeckInit ==
    /\ deck = Deck_new
    /\ game_state = None
    /\ call = Called("new", "-", None)
    /\ cards = <<>>
    /\ raw_action = <<>>
    /\ stdin_lines = "more"
    /\ pc = "-"

\* The first two statements of the Hit arm, on the hand in cards, when the
\* shuffle left the card at place i last.
TakeCard(i) ==
    /\ ~is_hand_too_large(cards)
    /\ i \in 1..Len(deck.remaining_cards)
    /\ LET rank == deck.remaining_cards[i].value
       IN  /\ \A j \in 1..i - 1 : deck.remaining_cards[j].value # rank
           /\ cards # <<>> => RankIndex(cards[Len(cards)].value) <= RankIndex(rank)
    /\ LET drawn == draw_card(OnTop(deck, i))
       IN  /\ deck' = drawn.deck
           /\ cards' = Append(cards, drawn.ret[1])
           /\ call' = Called("draw_card", "-", drawn.ret)
    /\ UNCHANGED <<game_state, main_vars>>

FullDeckNext == \E i \in 1..Len(Deck_new.remaining_cards) : TakeCard(i)

FullDeckSpec == FullDeckInit /\ [][FullDeckNext]_vars

----------------------------------------------------------------------------
(* What the claims are stated with. *)

Terminal == {"GameWon", "GameLost"}

LosingActions == {"Surrender", "Stand", "DoubleDown", "SplitCards"}

Front(s) == SubSeq(s, 1, Len(s) - 1)

IsPrefix(s, t) == Len(s) <= Len(t) /\ SubSeq(t, 1, Len(s)) = s

NoDuplicate(s) == \A i, j \in 1..Len(s) : i # j => s[i] # s[j]

\* The values a rank may count for: Ace 1 or 11, Two..Ten the number on the
\* face, Jack/Queen/King 10.
RankValues(rank) ==
    CASE rank = "Ace" -> {1, 11}
      [] rank \in {"Jack", "Queen", "King"} -> {10}
      [] OTHER -> {1 + CHOOSE i \in 1..Len(CardValue_ALL_VALUES) :
                           CardValue_ALL_VALUES[i] = rank}

RECURSIVE ChoiceSums(_)
\* Every sum got by choosing one value for each rank of the sequence.
ChoiceSums(ranks) ==
    IF ranks = <<>>
    THEN {0}
    ELSE {t + v : t \in ChoiceSums(Front(ranks)),
                  v \in RankValues(ranks[Len(ranks)])}

\* calculate_current_hand_value's result as a set of integers.
Totals(ranks) ==
    LET values == calculate_current_hand_value(ranks)
    IN  {values[i].value : i \in 1..Len(values)}

\* A step that is a call of deal_with_action with one of the given actions.
DealStep(actions) ==
    /\ Started
    /\ call'.name = "deal_with_action"
    /\ call'.action \in actions

----------------------------------------------------------------------------
(* The round state machine: C1 to C4 (under Spec). *)

\* C1: Hit on a Continuing state draws one card from the deck (the last of
\* remaining_cards, which moves to the end of drawn_cards; none when
\* remaining_cards is empty), appends it to the hand, and gives GameLost if
\* the resulting hand is too large, otherwise GameWon if 21 is among the
\* possible totals of the resulting hand, otherwise Continuing.
C1_HitTransition ==
    [][(DealStep({"Hit"}) /\ variant = "Continuing") =>
          /\ IF deck.remaining_cards # <<>>
             THEN LET card == deck.remaining_cards[Len(deck.remaining_cards)]
                  IN  /\ hand' = Append(hand, card)
                      /\ deck'.remaining_cards = Front(deck.remaining_cards)
                      /\ deck'.drawn_cards = Append(deck.drawn_cards, card)
             ELSE hand' = hand /\ deck' = deck
          /\ variant' =
                 IF is_hand_too_large(hand')
                 THEN "GameLost"
                 ELSE IF 21 \in Totals(create_hand_values(hand'))
                      THEN "GameWon"
                      ELSE "Continuing"]_vars

\* A round won by a Hit that drew the card completing 21.
C1_Witness ==
    /\ Started
    /\ call.name = "deal_with_action" /\ call.action = "Hit"
    /\ variant = "GameWon"
    /\ Len(hand) >= 2
    /\ deck.drawn_cards # <<>>
    /\ hand[Len(hand)] = deck.drawn_cards[Len(deck.drawn_cards)]

\* C2: GameWon and GameLost are terminal: each of the five actions applied
\* to such a state leaves the variant, the hand and the deck (remaining_cards
\* and drawn_cards) as they are, so nothing that follows changes a round
\* once it is won or lost.
C2_TerminalFixed ==
    [][(Started /\ variant \in Terminal) =>
          /\ variant' = variant
          /\ hand' = hand
          /\ deck'.remaining_cards = deck.remaining_cards
          /\ deck'.drawn_cards = deck.drawn_cards]_vars

\* A won round (only a Hit wins) on which Stand has since been called.
C2_Witness ==
    /\ Started
    /\ variant = "GameWon"
    /\ call.name = "deal_with_action" /\ call.action = "Stand"
    /\ deck.remaining_cards # <<>>

\* C3: on a Continuing state each of Surrender, Stand, DoubleDown and
\* SplitCards gives GameLost, whatever the hand and the deck are.
C3_OthersLose ==
    [][(DealStep(LosingActions) /\ variant = "Continuing") =>
          variant' = "GameLost"]_vars

\* A round lost by Stand on a hand that is not too large and has no total
\* of 21 (a Hit never loses such a hand).
C3_Witness ==
    /\ Started
    /\ variant = "GameLost"
    /\ call.name = "deal_with_action" /\ call.action = "Stand"
    /\ hand # <<>>
    /\ ~is_hand_too_large(hand)
    /\ 21 \notin Totals(create_hand_values(hand))

\* C4: Surrender, Stand, DoubleDown and SplitCards on a Continuing state
\* draw no card: the hand, remaining_cards and drawn_cards of the resulting
\* state are those before the action.
C4_OthersDrawNothing ==
    [][(DealStep(LosingActions) /\ variant = "Continuing") =>
          /\ hand' = hand
          /\ deck'.remaining_cards = deck.remaining_cards
          /\ deck'.drawn_cards = deck.drawn_cards]_vars

\* A round lost by DoubleDown with cards left to draw and a hand that a Hit
\* would not have lost.
C4_Witness ==
    /\ Started
    /\ variant = "GameLost"
    /\ call.name = "deal_with_action" /\ call.action = "DoubleDown"
    /\ hand # <<>>
    /\ ~is_hand_too_large(hand)
    /\ deck.remaining_cards # <<>>

----------------------------------------------------------------------------
(* The valuation of a hand: C5, C9, C10 (under ValSpec, on every hand of at  *)
(* most MaxHandLen cards) and C6 (under Spec, on the hands of a round).     *)

\* C5: for every sequence of ranks calculate_current_hand_value returns, as
\* a set, exactly the totals <= 21 obtainable by choosing one value for each
\* card (Ace 1 or 11, Two..Ten the face number, Jack/Queen/King 10): pruning
\* the sums above 21 at each step of the fold gives the set that
\* raw_calculate_current_hand_value, which prunes nothing, gives once its
\* sums above 21 are dropped.  [Ace] gives {1,11}, [Ace,King] gives {11,21},
\* [King,Queen,Two] gives {} and [] gives {0}.
C5_TotalsAreChoiceSums ==
    LET ranks == create_hand_values(cards)
        raw == raw_calculate_current_hand_value(ranks)
    IN  /\ Totals(ranks) = {t \in ChoiceSums(ranks) : t <= 21}
        /\ Totals(ranks) = {t \in ToSet(raw) : t <= 21}
        /\ ranks = <<"Ace">> => Totals(ranks) = {1, 11}
        /\ ranks = <<"Ace", "King">> => Totals(ranks) = {11, 21}
        /\ ranks = <<"King", "Queen", "Two">> => Totals(ranks) = {}
        /\ ranks = <<>> => Totals(ranks) = {0}

\* A hand with an ace where the pruning dropped a sum, kept another and 21
\* is among the totals kept.
C5_Witness ==
    LET ranks == create_hand_values(cards)
    IN  /\ "Ace" \in ToSet(ranks)
        /\ \E t \in ToSet(raw_calculate_current_hand_value(ranks)) : t > 21
        /\ 21 \in Totals(ranks)

\* C6: the totals calculate_current_hand_value returns are deduplicated: no
\* total occurs more than once in the result.
C6_TotalsDeduplicated ==
    Started =>
        NoDuplicate(calculate_current_hand_value(create_hand_values(hand)))

\* C9: a hand that is too large stays too large whatever card is appended,
\* so no sequence of draws takes it back to a hand with a possible total.
C9_BustStaysBust ==
    [][is_hand_too_large(cards) =>
          (is_hand_too_large(cards')
           /\ Totals(create_hand_values(cards')) = {})]_vars

\* A hand too large to which a card was appended.
C9_Witness ==
    /\ Len(cards) >= 2
    /\ is_hand_too_large(Front(cards))
    /\ is_hand_too_large(cards)

\* C10: is_hand_too_large(hand) is true iff the hand is non-empty and every
\* choice of values for its aces sums to more than 21; the empty hand is
\* never too large.
C10_TooLargeIffAllSumsOver21 ==
    /\ is_hand_too_large(cards) <=>
           (/\ cards # <<>>
            /\ \A t \in ChoiceSums(create_hand_values(cards)) : t > 21)
    /\ cards = <<>> => ~is_hand_too_large(cards)

\* A hand too large although it holds an ace, whose lower value was tried.
C10_Witness ==
    /\ is_hand_too_large(cards)
    /\ "Ace" \in ToSet(create_hand_values(cards))

----------------------------------------------------------------------------
(* The deck: C7, C8 (under Spec). *)

\* The cards of the deck the model starts from.
DeckCards ==
    {Card(CardSuit_ALL_VALUES[i], DeckValues[j]) :
        i \in 1..NumSuits, j \in 1..Len(DeckValues)}

\* C7: after any sequence of draw_card and shuffle calls and of game
\* actions, remaining_cards and drawn_cards are disjoint, neither holds a
\* duplicate, and together they hold exactly the cards of Deck::new (every
\* (suit, rank) pair once); a card only ever moves from remaining_cards to
\* drawn_cards, never back.
C7_DeckComplete ==
    /\ [](/\ ToSet(deck.remaining_cards) \cap ToSet(deck.drawn_cards) = {}
          /\ NoDuplicate(deck.remaining_cards)
          /\ NoDuplicate(deck.drawn_cards)
          /\ ToSet(deck.remaining_cards) \cup ToSet(deck.drawn_cards) = DeckCards
          /\ Len(deck.remaining_cards) + Len(deck.drawn_cards)
                 = NumSuits * Len(DeckValues))
    /\ [][/\ IsPrefix(deck.drawn_cards, deck'.drawn_cards)
          /\ ToSet(deck'.remaining_cards) \subseteq ToSet(deck.remaining_cards)]_vars

\* A deck that was shuffled (its first card drawn is not the last of
\* Deck::new), drawn from directly and then by the Hit of a round.
C7_Witness ==
    /\ Started
    /\ Len(hand) >= 1
    /\ Len(deck.drawn_cards) > Len(hand)
    /\ deck.remaining_cards # <<>>
    /\ deck.drawn_cards[1] #
           BoundedDeck_new.remaining_cards[Len(BoundedDeck_new.remaining_cards)]

\* C8: draw_card on a deck with remaining_cards non-empty removes the last
\* element of remaining_cards, appends it to the end of drawn_cards, returns
\* a card equal to it and leaves the other remaining cards in their order
\* (one card less remaining, one more drawn); on a deck with remaining_cards
\* empty it returns no card and leaves both sequences as they are.
C8_DrawCard ==
    [][call'.name = "draw_card" =>
          IF deck.remaining_cards # <<>>
          THEN LET card == deck.remaining_cards[Len(deck.remaining_cards)]
               IN  /\ deck'.remaining_cards = Front(deck.remaining_cards)
                   /\ deck'.drawn_cards = Append(deck.drawn_cards, card)
                   /\ call'.ret = Some(card)
                   /\ Len(deck'.remaining_cards) = Len(deck.remaining_cards) - 1
                   /\ Len(deck'.drawn_cards) = Len(deck.drawn_cards) + 1
          ELSE /\ call'.ret = None
               /\ deck' = deck]_vars

\* A card drawn from a shuffled deck, with cards remaining and drawn before.
C8_Witness ==
    /\ call.name = "draw_card"
    /\ call.ret # None
    /\ Len(deck.drawn_cards) >= 2
    /\ call.ret[1] = deck.drawn_cards[Len(deck.drawn_cards)]
    /\ Len(deck.remaining_cards) >= 1

----------------------------------------------------------------------------
(* The parser and the loop of main: C11, C20 (under MainSpec). *)

\* The command of each action, spelled out.
Command(action) ==
    CASE action = "Hit" -> <<"h", "i", "t">>
      [] action = "Stand" -> <<"s", "t", "a", "n", "d">>
      [] action = "DoubleDown" ->
             <<"d", "o", "u", "b", "l", "e", "-", "d", "o", "w", "n">>
      [] action = "SplitCards" -> <<"s", "p", "l", "i", "t">>
      [] action = "Surrender" -> <<"s", "u", "r", "r", "e", "n", "d", "e", "r">>

\* The line is the action's command, character for character, between
\* blanks and tabs only.
Spells(line, action) ==
    \E i \in 1..Len(line) + 1, j \in 0..Len(line) :
        /\ \A k \in 1..i - 1 : line[k] \in {" ", "\t"}
        /\ \A k \in j + 1..Len(line) : line[k] \in {" ", "\t"}
        /\ SubSeq(line, i, j) = Command(action)

Unparsed(line) == \A action \in Actions : ~Spells(line, action)

\* A turn of main's loop.
LoopTurn == pc = "loop" /\ pc' = "loop"

\* C11: when the line does not parse to an action (as "fold", "Hit" and the
\* empty line do not), the turn of the loop applies nothing: variant, hand
\* and deck after it are those before.  parse_action returns an action only
\* for the exact, case-sensitive commands hit, stand, double-down, split,
\* surrender, after trimming the surrounding whitespace.
C11_UnparsedLineChangesNothing ==
    /\ [](/\ \A action \in Actions :
                 parse_action(raw_action) = Some(action)
                     <=> Spells(raw_action, action)
          /\ Unparsed(raw_action) <=> parse_action(raw_action) = None
          /\ raw_action \in {<<"f", "o", "l", "d">>, <<"H", "i", "t">>, <<>>}
                 => parse_action(raw_action) = None)
    /\ [][(LoopTurn /\ Unparsed(raw_action')) =>
             (game_state' = game_state /\ deck' = deck)]_vars

\* The line "fold" read, and nothing applied, on a round with a card in hand.
C11_Witness ==
    /\ pc = "loop"
    /\ raw_action = <<"f", "o", "l", "d">>
    /\ call.name = "parse_action"
    /\ Started
    /\ variant = "Continuing"
    /\ hand # <<>>

\* A turn of the loop to which stdin gives no line.
EndTurn == LoopTurn /\ stdin_lines' = "exhausted"

\* stdin has ended while the round goes on.
InputEnded ==
    /\ pc = "loop"
    /\ stdin_lines = "exhausted"
    /\ Started
    /\ variant = "Continuing"

\* C20: once stdin is exhausted while the state is Continuing, every further
\* turn of the loop re-applies the last line read (raw_action is not
\* cleared).  If that line parses to an action the loop reaches GameWon or
\* GameLost and exits: the turn to come ends the round or takes a card off
\* the remaining deck, which is finite, and from a round that is over the
\* only step is the exit.  If the line does not parse (or no line was ever
\* read) the state stays Continuing and the loop goes on, turn after turn.
\* The loop never calls deal_with_action on a GameWon or GameLost state.
C20_LoopAfterEndOfInput ==
    /\ [][InputEnded => stdin_lines' = "exhausted"]_vars
    /\ [][EndTurn =>
             /\ raw_action' = raw_action
             /\ \A action \in Actions :
                    Spells(raw_action, action) =>
                        /\ call' = Called("deal_with_action", action, None)
                        /\ LET s == deal_with_action(action, CurrentState)
                           IN  /\ variant' = s.variant
                               /\ hand' = s.player_state.hand
                               /\ deck' = s.player_state.deck
             /\ Unparsed(raw_action) => (InputEnded' /\ UNCHANGED <<game_state, deck>>)
          ]_vars
    /\ [](InputEnded =>
             \A action \in Actions :
                 Spells(raw_action, action) =>
                     LET s == deal_with_action(action, CurrentState)
                     IN  \/ s.variant \in Terminal
                         \/ Len(s.player_state.deck.remaining_cards)
                                < Len(deck.remaining_cards))
    /\ [][(Started /\ variant \in Terminal) =>
             /\ pc = "loop" => pc' = "done"
             /\ UNCHANGED <<game_state, deck, call>>]_vars
    /\ [](pc = "done" => (Started /\ variant \in Terminal))

\* A round that went on, by a Hit re-applied, after stdin had ended.
C20_Witness ==
    /\ InputEnded
    /\ raw_action = <<" ", "h", "i", "t", "\t">>
    /\ call = Called("deal_with_action", "Hit", None)
    /\ Len(hand) >= 2

----------------------------------------------------------------------------
(* The hand and the deck across a round: C12, C13 (under Spec). *)

\* C12: Hit applied to a Continuing state whose deck has no remaining cards
\* is a continuation that changes nothing: no card is appended, the hand and
\* the deck are as before and the state is Continuing again, whether the
\* deck was empty at the start of the round or ran out during it.
C12_HitOnEmptyDeck ==
    [][(/\ DealStep({"Hit"})
        /\ variant = "Continuing"
        /\ deck.remaining_cards = <<>>) =>
           /\ hand' = hand
           /\ deck' = deck
           /\ variant' = "Continuing"]_vars

\* A Hit on a round started on a deck drawn to its end: the hand is still
\* empty after it.
C12_Witness ==
    /\ Started
    /\ call.name = "deal_with_action" /\ call.action = "Hit"
    /\ variant = "Continuing"
    /\ hand = <<>>
    /\ deck.remaining_cards = <<>>
    /\ Len(deck.drawn_cards) = NumSuits * Len(DeckValues)

\* C13: the hand only grows by appending drawn cards: the hand before each
\* action is a prefix of the hand after it, an action appends at most one
\* card, and a card is appended only by Hit and is the card that Hit moved
\* from the end of remaining_cards to the end of drawn_cards.
C13_HandGrowsByAppending ==
    [][Started =>
          /\ IsPrefix(hand, hand')
          /\ Len(hand') <= Len(hand) + 1
          /\ hand' # hand =>
                 /\ DealStep({"Hit"})
                 /\ deck.remaining_cards # <<>>
                 /\ LET card == deck.remaining_cards[Len(deck.remaining_cards)]
                    IN  /\ hand' = Append(hand, card)
                        /\ deck'.remaining_cards = Front(deck.remaining_cards)
                        /\ deck'.drawn_cards = Append(deck.drawn_cards, card)]_vars

\* A round lost on its third card, on a deck from which one card had been
\* drawn before the round: the hand is the last three cards drawn.
C13_Witness ==
    /\ Started
    /\ call.name = "deal_with_action" /\ call.action = "Hit"
    /\ variant = "GameLost"
    /\ Len(hand) = 3
    /\ Len(deck.drawn_cards) = 4
    /\ hand = SubSeq(deck.drawn_cards, 2, 4)

----------------------------------------------------------------------------
(* The start of a round and the new deck: C15 (under Spec). *)

\* C15: GameState::start returns a Continuing state with an empty hand and
\* leaves the deck it is given untouched (remaining_cards and drawn_cards as
\* passed in, no card drawn).  Deck::new() yields drawn_cards empty and
\* remaining_cards holding the 52 (suit, rank) pairs once each, suit by suit
\* (Clubs, Hearts, Diamonds, Spades) and within a suit Two to Ten, Jack,
\* Queen, King, Ace.
C15_StartAndNewDeck ==
    /\ [](LET suits == <<"Clubs", "Hearts", "Diamonds", "Spades">>
              ranks == <<"Two", "Three", "Four", "Five", "Six", "Seven",
                         "Eight", "Nine", "Ten", "Jack", "Queen", "King",
                         "Ace">>
          IN  /\ Deck_new.drawn_cards = <<>>
              /\ Len(Deck_new.remaining_cards) = 52
              /\ \A i \in 1..4, j \in 1..13 :
                     Deck_new.remaining_cards[13 * (i - 1) + j] =
                         [suit |-> suits[i], value |-> ranks[j]]
              /\ NoDuplicate(Deck_new.remaining_cards))
    /\ [][call'.name = "start" =>
             /\ game_state' = Some([variant |-> "Continuing", hand |-> <<>>])
             /\ deck' = deck]_vars

\* A round just started on a shuffled deck from which cards had been drawn.
C15_Witness ==
    /\ Started
    /\ call.name = "start"
    /\ variant = "Continuing"
    /\ hand = <<>>
    /\ Len(deck.drawn_cards) >= 2
    /\ deck.remaining_cards # <<>>
    /\ deck.remaining_cards # SubSeq(BoundedDeck_new.remaining_cards, 1,
                                     Len(deck.remaining_cards))

----------------------------------------------------------------------------
(* The range of HandValue: C16 (under ValSpec). *)

\* The HandValues made for the hand in cards: those of each rank, the totals
\* of the hand, and each total combined with each value of each rank.
CardHandValues ==
    UNION {ToSet(card_value_to_hand_value(rank)) :
               rank \in ToSet(CardValue_ALL_VALUES)}

HandTotals == ToSet(calculate_current_hand_value(create_hand_values(cards)))

CombinedHandValues ==
    UNION {ToSet(combine_with_separate_value(total, other)) :
               total \in HandTotals, other \in CardHandValues}

\* C16 as stated: every HandValue is an integer total in [0, 21): every
\* HandValue that card_value_to_hand_value, combine_with_separate_value or
\* calculate_current_hand_value produces has a value strictly less than 21.
C16_HandValuesBelow21 ==
    \A hand_value \in CardHandValues \cup HandTotals \cup CombinedHandValues :
        hand_value.value \in 0..20

\* C16, amended: every HandValue is an integer total in [0, 21]: the values
\* card_value_to_hand_value produces are 1 to 11 (strictly less than 21), and
\* the values combine_with_separate_value and calculate_current_hand_value
\* produce are at most 21, with 21 among them.
C16_HandValuesAtMost21 ==
    /\ \A hand_value \in CardHandValues : hand_value.value \in 1..11
    /\ \A hand_value \in HandTotals \cup CombinedHandValues :
           hand_value.value \in 0..21

\* A hand of three cards with a total of 21 of its own, and a lower total
\* that one more card brings to 21.
C16_Witness ==
    /\ Len(cards) = 3
    /\ \E hand_value \in HandTotals : hand_value.value = 21
    /\ \E total \in HandTotals, other \in CardHandValues :
           /\ total.value < 21
           /\ combine_with_separate_value(total, other) = Some([value |-> 21])

----------------------------------------------------------------------------
(* No panic in the core: C17 (under ValSpec). *)

\* The results of the calls of unsafe_from_u32 in the core: the seed of the
\* fold and the values of each rank.
UnsafeResults ==
    {unsafe_from_u32(0)} \cup
    UNION {ToSet(card_value_to_hand_value(rank)) :
               rank \in ToSet(CardValue_ALL_VALUES)}

\* C17: no operation of the core panics.  unsafe_from_u32 unwraps from_u32,
\* which is None from 21 on, and is only called with arguments below 21 (0
\* for the seed of the fold, 1 to 11 for the values of a card): none of its
\* calls panics, so for every hand the valuation, is_hand_too_large and
\* deal_with_action with each of the five actions return a value.
C17_NoPanic ==
    /\ \A n \in 0..40 : (unsafe_from_u32(n) = Panic) <=> (n >= 21)
    /\ Panic \notin UnsafeResults
    /\ \A result \in UnsafeResults : result.value \in {0} \cup 1..11
    /\ Panic \notin ToSet(calculate_current_hand_value(create_hand_values(cards)))
    /\ is_hand_too_large(cards) \in BOOLEAN
    /\ \A action \in Actions :
           LET player_state == [deck |-> deck, hand |-> cards]
               state == deal_with_action(action, Continuing(player_state))
           IN  /\ state.variant \in {"GameWon", "GameLost", "Continuing"}
               /\ Len(state.player_state.hand) \in {Len(cards), Len(cards) + 1}

\* A hand of four cards with an ace (valued by unsafe_from_u32(1) and
\* unsafe_from_u32(11)) and a king, still under 21.
C17_Witness ==
    /\ Len(cards) = 4
    /\ \E i, j \in 1..4 : cards[i].value = "Ace" /\ cards[j].value = "King"
    /\ calculate_current_hand_value(create_hand_values(cards)) # <<>>

----------------------------------------------------------------------------
(* The state of the round and its hand: C18 (under Spec). *)

\* C18: in every state of a round, whatever actions were applied since
\* start: the hand of a Continuing state is not too large and none of its
\* possible totals is 21; the hand of a GameWon state has 21 among its
\* possible totals; every state whose hand is too large is GameLost.
C18_StateMatchesHand ==
    Started =>
        /\ variant = "Continuing" =>
               /\ ~is_hand_too_large(hand)
               /\ 21 \notin Totals(create_hand_values(hand))
        /\ variant = "GameWon" => 21 \in Totals(create_hand_values(hand))
        /\ is_hand_too_large(hand) => variant = "GameLost"

\* A round still going on after two Hits, with more than one possible total
\* (the hand holds an ace).
C18_Witness ==
    /\ Started
    /\ variant = "Continuing"
    /\ call.name = "deal_with_action" /\ call.action = "Hit"
    /\ Len(hand) = 2
    /\ Cardinality(Totals(create_hand_values(hand))) >= 2

----------------------------------------------------------------------------
(* The hand and the drawn cards in main's round: C19 (under MainSpec). *)

\* C19: in a round started by GameState::start on a deck whose drawn_cards
\* is empty (as main starts it, on the new deck shuffled), after any actions
\* the hand equals drawn_cards, card for card and in the same order; hence
\* the hand never holds the same (suit, rank) card twice, and the hand and
\* remaining_cards together count the cards of the whole deck (52 for the
\* deck of Deck::new).
C19_HandIsDrawnCards ==
    /\ Len(Deck_new.remaining_cards) = 52
    /\ Started =>
           /\ hand = deck.drawn_cards
           /\ NoDuplicate(hand)
           /\ Len(hand) + Len(deck.remaining_cards) =
                  Len(BoundedDeck_new.remaining_cards)
           /\ ToSet(hand) \cup ToSet(deck.remaining_cards) =
                  ToSet(BoundedDeck_new.remaining_cards)

\* Three cards in hand, the three drawn, on a round still going on.
C19_Witness ==
    /\ pc = "loop"
    /\ Started
    /\ variant = "Continuing"
    /\ Len(hand) = 3
    /\ Len(deck.drawn_cards) = 3

----------------------------------------------------------------------------
(* The length of a round on the full deck: C14 (under FullDeckSpec). *)

\* The hand in cards is one a Continuing state can hold: not too large and
\* without a total of 21.
CanContinue ==
    /\ ~is_hand_too_large(cards)
    /\ 21 \notin Totals(create_hand_values(cards))

\* The sequence in the opposite order.
Reverse(s) == [k \in 1..Len(s) |-> s[Len(s) + 1 - k]]

\* The Continuing state with the hand in cards, on the deck as shuffled with
\* the card at place i of remaining_cards last.
ContinuingOn(i) == Continuing([deck |-> OnTop(deck, i), hand |-> cards])

\* C14: a round started on the full deck of 52 cards, in any order, is won
\* or lost after at most 11 recognized actions, whatever the actions are:
\* each action other than Hit ends the round at once, and no hand of 11
\* distinct cards is both not too large and without a total of 21 (a hand
\* that can continue has at most 10 cards, and a Hit on one of 10 cards ends
\* the round).  So the deck is never exhausted during the round: Hit always
\* draws a card and remaining_cards always holds at least 41 cards.
C14_RoundEndsWithin11Actions ==
    LET ranks == create_hand_values(cards)
    IN  /\ Len(Deck_new.remaining_cards) = 52
        /\ NoDuplicate(cards)
        /\ Len(cards) + Len(deck.remaining_cards) = 52
        /\ Totals(ranks) = {t \in ChoiceSums(ranks) : t <= 21}
        /\ Totals(Reverse(ranks)) = Totals(ranks)
        /\ is_hand_too_large(Reverse(cards)) = is_hand_too_large(cards)
        /\ Len(cards) >= 11 => ~CanContinue
        /\ CanContinue =>
               /\ Len(cards) <= 10
               /\ Len(deck.remaining_cards) >= 42
               /\ \A action \in LosingActions, i \in 1..Len(deck.remaining_cards) :
                      deal_with_action(action, ContinuingOn(i)).variant = "GameLost"
               /\ \A i \in 1..Len(deck.remaining_cards) :
                      LET s == deal_with_action("Hit", ContinuingOn(i))
                      IN  /\ s.player_state.hand =
                                 Append(cards, deck.remaining_cards[i])
                          /\ Len(s.player_state.deck.remaining_cards) >= 41
                          /\ Len(cards) = 10 => s.variant \in Terminal

\* The longest hand that can continue: ten cards (as four aces, four twos
\* and two threes, with the totals 18 and no other).
C14_Witness ==
    /\ Len(cards) = 10
    /\ CanContinue
    /\ Len(deck.remaining_cards) = 42

====
